---- MODULE Spec2Model ----
(***************************************************************************)
(* dbt-rowlineage: the SQL instrumentation pass (sql_instrumentation.py)   *)
(* and the post-execution token resolver (tracer.py).                      *)
(*                                                                         *)
(* A statement tree is held as an arena: `blocks` maps the id of every     *)
(* Select block of the statement to its record, and the other nodes        *)
(* (sources, joins, output expressions) are records that name a nested     *)
(* Select block by its id.  Names and string values are sequences of       *)
(* one-character strings, so that concatenation, startswith and slicing    *)
(* are computed and not assumed.                                           *)
(***************************************************************************)
EXTENDS Integers, Sequences, FiniteSets, TLC

VARIABLES
    stmt,          \* the parsed statement (its root node)
    blocks,        \* the Select blocks of the statement, by id
    input,         \* the blocks as they were parsed
    select_nodes,  \* _inject_lineage: the Select nodes still to process
    pc,            \* position in the pipeline
    pass,          \* 1: first instrumentation, 2: instrumentation of its result
    built,         \* per block, what _build_tokens_expression classified and enumerated
    first,         \* the blocks returned by the first instrumentation
    db,            \* the source row combinations the instrumented query is run on
    target_rows,   \* the rows handed to build_mappings
    source_model,  \* the upstream model build_mappings resolves against
    mappings,      \* the records build_mappings returned
    source_rows,   \* the upstream rows handed to build_mappings
    raw_sql,       \* instrument_sql: the SQL text it is given
    dialect,       \* instrument_sql: the dialect it is given
    sqlglot,       \* the parsing library: missing, or installed
    result,        \* instrument_sql: what it returned or raised
    queue,         \* build_lineage_graph: the rows still to expand
    visited,       \* build_lineage_graph: the source rows already emitted
    graph,         \* build_lineage_graph: the hops collected so far
    manifest,      \* generate_lineage_for_project: the nodes of the manifest
    export_format, \* generate_lineage_for_project: the configured export format
    edges,         \* generate_lineage_for_project: the edges still to iterate
    calls,         \* the calls of plugin.capture_lineage made so far
    written,       \* the batches handed to writer.write so far
    sink,          \* the records the export file holds
    all_mappings   \* generate_lineage_for_project: the list it accumulates

instr_vars == <<stmt, blocks, input, select_nodes, pass, built, first>>
tracer_vars == <<db, target_rows, source_model, mappings, source_rows>>
sql_vars == <<raw_sql, dialect, sqlglot, result>>
graph_vars == <<queue, visited, graph>>
project_vars == <<manifest, export_format, edges, calls, written, sink, all_mappings>>
vars == <<stmt, blocks, input, select_nodes, pc, pass, built, first,
          db, target_rows, source_model, mappings, source_rows,
          raw_sql, dialect, sqlglot, result,
          queue, visited, graph,
          manifest, export_format, edges, calls, written, sink, all_mappings>>

(***************************************************************************)
(* Bounds of the model.                                                    *)
(***************************************************************************)
MaxExprs == 2
MaxJoins == 2
MaxExecJoins == 1
MaxRows == 2
MaxTokens == 3
MaxTargetRows == 2
MaxStatements == 2
MaxHeuristicRows == 2
MaxBatch == 2
MaxMappings == 4

(***************************************************************************)
(* Trace vocabulary (utils/sql.py).                                        *)
(***************************************************************************)
TRACE_COLUMN == <<"_row_trace_id">>
PARENT_TRACE_COLUMN == <<"_row_parent_trace_ids">>
TRACE_EXPRESSION ==
    [kind |-> "Cast",
     this |-> [kind |-> "MD5", this |-> [kind |-> "DPipe"]],
     to |-> <<"uuid">>]

(***************************************************************************)
(* Node constructors of the statement tree.                                *)
(***************************************************************************)
NoName == << >>
None == [kind |-> "None"]

Identifier(name) == [kind |-> "Identifier", this |-> name, quoted |-> FALSE]
Column(name) == [kind |-> "Column", this |-> name]
Alias(e, name) == [kind |-> "Alias", this |-> e, alias |-> name]
Count == [kind |-> "Count"]
Literal(s) == [kind |-> "Literal", this |-> s, is_string |-> TRUE]
Add(l, r) == [kind |-> "Add", this |-> l, expression |-> r]
Array(es) == [kind |-> "Array", expressions |-> es]
Concat(es) == [kind |-> "Concat", expressions |-> es]
Cast(e, t) == [kind |-> "Cast", this |-> e, to |-> t]
Property(e, es) == [kind |-> "Property", this |-> e, this_key |-> "this", expressions |-> es]
Coalesce(e, es) == [kind |-> "Coalesce", this |-> e, expressions |-> es]
ArrayConcat(l, r) == [kind |-> "ArrayConcat", this |-> l, expression |-> r]
ArrayUnique(e) == [kind |-> "ArrayUnique", this |-> e]
ArrayUniqueAgg(e) == [kind |-> "ArrayUniqueAgg", this |-> e]
Table(name, al) == [kind |-> "Table", this |-> name, alias |-> al]
Subquery(b, al) == [kind |-> "Subquery", this |-> b, alias |-> al]
From(src) == [kind |-> "From", this |-> src]
Join(src, cond) == [kind |-> "Join", this |-> src, on |-> cond]
EQ == [kind |-> "EQ"]
In(q) == [kind |-> "In", query |-> q]
CTE(b, al) == [kind |-> "CTE", this |-> b, alias |-> al]
SelectRef(b) == [kind |-> "Select", id |-> b]

Select(es, f, js, w, g, d, c) ==
    [expressions |-> es, from |-> f, joins |-> js, where |-> w,
     group |-> g, distinct |-> d, ctes |-> c]

(***************************************************************************)
(* sqlglot's class test  isinstance(f, exp.AggFunc).                       *)
(***************************************************************************)
AggFuncKinds == {"Count", "ArrayUniqueAgg"}

(***************************************************************************)
(* Expression.alias_or_name:  self.alias or self.name.  A Table's name is  *)
(* its identifier; a Subquery has no name.                                 *)
(***************************************************************************)
alias_or_name(source) ==
    IF source.alias # NoName THEN source.alias
    ELSE IF source.kind = "Table" THEN source.this
    ELSE NoName

(***************************************************************************)
(* Expression.walk(bfs=True) / Expression.find_all(types): the nodes of    *)
(* the subtree in breadth-first order, the start node first.               *)
(***************************************************************************)
children(n, blks) ==
    CASE n.kind = "Select" ->
            LET b == blks[n.id] IN
                b.expressions
                \o (IF b.from.kind = "From" THEN <<b.from>> ELSE << >>)
                \o b.joins
                \o (IF b.where.kind = "None" THEN << >> ELSE <<b.where>>)
                \o b.group
                \o b.ctes
      [] n.kind = "Union" -> <<n.this, n.expression>>
      [] n.kind = "Insert" ->
            <<n.this>> \o (IF n.expression.kind = "None" THEN << >> ELSE <<n.expression>>)
      [] n.kind = "Drop" -> <<n.this>>
      [] n.kind \in {"CTE", "Subquery"} -> <<SelectRef(n.this)>>
      [] n.kind \in {"From", "Alias"} -> <<n.this>>
      [] n.kind = "Join" -> <<n.this, n.on>>
      [] n.kind = "In" -> <<n.query>>
      [] n.kind = "Add" -> <<n.this, n.expression>>
      [] OTHER -> << >>

RECURSIVE bfs(_, _)
bfs(pending, blks) ==
    IF pending = << >> THEN << >>
    ELSE <<Head(pending)>> \o bfs(Tail(pending) \o children(Head(pending), blks), blks)

find_all(root, kinds, blks) ==
    SelectSeq(bfs(<<root>>, blks), LAMBDA n : n.kind \in kinds)

(***************************************************************************)
(* list.insert(i, x) of Python: x is put before index i (0-based); an      *)
(* index past the end appends.                                             *)
(***************************************************************************)
(* faulty variant: the entry at index i is replaced *)
insert_overwriting(list, i, x) ==
    IF i >= Len(list) THEN Append(list, x)
    ELSE [list EXCEPT ![i + 1] = x]

insert(list, i, x) ==
    LET k == IF i > Len(list) THEN Len(list) ELSE i
    IN  SubSeq(list, 1, k) \o <<x>> \o SubSeq(list, k + 1, Len(list))

(***************************************************************************)
(* _build_tokens_expression                                                *)
(***************************************************************************)
is_aggregated(node) ==
    \/ node.group # << >>
    \/ \E i \in 1..Len(node.expressions) : node.expressions[i].kind \in AggFuncKinds
    \/ node.distinct

RECURSIVE join_sources(_, _)
join_sources(joins, blks) ==
    IF joins = << >> THEN << >>
    ELSE find_all(Head(joins), {"Table", "Subquery"}, blks) \o join_sources(Tail(joins), blks)

(* faulty variant: a subquery counts as a source only once its block has the
   parent-tokens column *)
sources_of_instrumented(node, blks) ==
    SelectSeq((IF node.from.kind = "From"
                 THEN find_all(node.from, {"Table", "Subquery"}, blks) ELSE << >>)
              \o join_sources(node.joins, blks),
              LAMBDA x : x.kind = "Subquery" =>
                  \E i \in 1..Len(blks[x.this].expressions) :
                      /\ blks[x.this].expressions[i].kind = "Alias"
                      /\ blks[x.this].expressions[i].alias = PARENT_TRACE_COLUMN)

sources_of(node, blks) ==
    (IF node.from.kind = "From"
        THEN find_all(node.from, {"Table", "Subquery"}, blks) ELSE << >>)
    \o join_sources(node.joins, blks)

token_expr(source) ==
    LET alias == alias_or_name(source) IN
    IF source.kind = "Subquery"
    THEN Property(Identifier(alias), <<Identifier(PARENT_TRACE_COLUMN)>>)
    ELSE Array(<<Concat(<<Literal(alias \o <<":">>),
                          Cast(Property(Identifier(alias), <<Identifier(TRACE_COLUMN)>>),
                               <<"text">>)>>)>>)

RECURSIVE source_exprs_of(_)
source_exprs_of(sources) ==
    IF sources = << >> THEN << >>
    ELSE IF alias_or_name(Head(sources)) = NoName THEN source_exprs_of(Tail(sources))
    ELSE <<token_expr(Head(sources))>> \o source_exprs_of(Tail(sources))

safe_expr(s_expr) == Coalesce(s_expr, <<Array(<< >>)>>)

(* faulty variant: each new contribution is put in front of what is merged so far *)
RECURSIVE merge_arrays_prepend(_, _)
merge_arrays_prepend(merged_array, rest) ==
    IF rest = << >> THEN merged_array
    ELSE merge_arrays_prepend(ArrayConcat(safe_expr(Head(rest)), merged_array), Tail(rest))

RECURSIVE merge_arrays(_, _)
merge_arrays(merged_array, rest) ==
    IF rest = << >> THEN merged_array
    ELSE merge_arrays(ArrayConcat(merged_array, safe_expr(Head(rest))), Tail(rest))

merged_array_of(source_exprs) ==
    merge_arrays(safe_expr(Head(source_exprs)), Tail(source_exprs))

(* faulty variant: the merged array is returned as it is *)
dedup_wrap_none(node, merged_array) == merged_array

dedup_wrap(node, merged_array) ==
    IF ~is_aggregated(node) THEN ArrayUnique(merged_array)
    ELSE ArrayUniqueAgg(merged_array)

(* faulty variant: without the early return, merged_array stays None *)
_build_tokens_expression_unguarded(node, blks) ==
    LET source_exprs == source_exprs_of(sources_of(node, blks)) IN
    dedup_wrap(node, IF source_exprs = << >> THEN None ELSE merged_array_of(source_exprs))

_build_tokens_expression(node, blks) ==
    LET source_exprs == source_exprs_of(sources_of(node, blks)) IN
    IF source_exprs = << >> THEN Array(<< >>)
    ELSE dedup_wrap(node, merged_array_of(source_exprs))

(***************************************************************************)
(* _process_select_node                                                    *)
(***************************************************************************)
has_alias(node, name) ==
    \E i \in 1..Len(node.expressions) :
        /\ node.expressions[i].kind = "Alias"
        /\ node.expressions[i].alias = name

has_trace(node) == has_alias(node, TRACE_COLUMN)

(* faulty variant: the scan looks for a bare column instead of an aliased expression *)
has_parent_trace_column(node) ==
    \E i \in 1..Len(node.expressions) :
        /\ node.expressions[i].kind = "Column"
        /\ node.expressions[i].this = PARENT_TRACE_COLUMN

has_parent_trace(node) == has_alias(node, PARENT_TRACE_COLUMN)

(* faulty variant: the FROM table is also given its name as alias *)
with_trace_aliasing_source(node) ==
    LET n == IF node.from.kind = "From" /\ node.from.this.kind = "Table"
                  /\ node.from.this.alias = NoName
             THEN [node EXCEPT !.from.this.alias = node.from.this.this]
             ELSE node
    IN  IF ~has_trace(n)
        THEN [n EXCEPT !.expressions = insert(@, 0, Alias(TRACE_EXPRESSION, TRACE_COLUMN))]
        ELSE n

with_trace(node) ==
    IF ~has_trace(node)
    THEN [node EXCEPT !.expressions = insert(@, 0, Alias(TRACE_EXPRESSION, TRACE_COLUMN))]
    ELSE node

(* faulty variant: the parent-tokens column is inserted at index 0 *)
with_parent_trace_at_front(node, blks) ==
    IF has_parent_trace(node) THEN node
    ELSE [node EXCEPT !.expressions =
            insert(@, 0, Alias(_build_tokens_expression(node, blks), PARENT_TRACE_COLUMN))]

with_parent_trace(node, blks) ==
    IF has_parent_trace(node) THEN node
    ELSE [node EXCEPT !.expressions =
            insert(@, 1, Alias(_build_tokens_expression(node, blks), PARENT_TRACE_COLUMN))]

_process_select_node(node, blks) == with_parent_trace(with_trace(node), blks)

(***************************************************************************)
(* _inject_lineage, one step per statement of the function: the list of    *)
(* Select nodes is taken first, then each node is processed in place.      *)
(***************************************************************************)
RECURSIVE ids_of(_)
ids_of(nodes) == IF nodes = << >> THEN << >> ELSE <<Head(nodes).id>> \o ids_of(Tail(nodes))

(* faulty variant: find instead of find_all, only the first Select node is taken *)
select_nodes_first(expression, blks) ==
    LET all == ids_of(find_all(expression, {"Select"}, blks))
    IN  IF all = << >> THEN << >> ELSE <<Head(all)>>

select_nodes_of(expression, blks) == ids_of(find_all(expression, {"Select"}, blks))

NotBuilt == [called |-> FALSE, is_aggregated |-> FALSE, sources |-> << >>]

build_record(node, blks) ==
    IF has_parent_trace(with_trace(node)) THEN NotBuilt
    ELSE [called |-> TRUE,
          is_aggregated |-> is_aggregated(with_trace(node)),
          sources |-> sources_of(with_trace(node), blks)]

(* the loop of _inject_lineage run to its end: the blocks after every node
   of the list has been processed in place, in list order *)
RECURSIVE process_select_nodes(_, _)
process_select_nodes(nodes, blks) ==
    IF nodes = << >> THEN blks
    ELSE process_select_nodes(Tail(nodes),
            [blks EXCEPT ![Head(nodes)] = _process_select_node(blks[Head(nodes)], blks)])

_inject_lineage(expression, blks) ==
    process_select_nodes(select_nodes_of(expression, blks), blks)

(***************************************************************************)
(* SQL text.  A text is its statements with the separators between them:   *)
(* a statement is named by the tree it parses to and by how it is written  *)
(* (as the generator of a dialect prints that tree, or otherwise); a chunk *)
(* can also be blank (no token between two semicolons, or an empty text)   *)
(* or malformed.                                                           *)
(***************************************************************************)
Tree(expression, blks) == [stmt |-> expression, blocks |-> blks]
Statement(tree, fmt) == [kind |-> "statement", tree |-> tree, fmt |-> fmt]
Blank == [kind |-> "blank"]
Malformed == [kind |-> "malformed"]
Separator(text) == [kind |-> "separator", text |-> text]

(* str.join *)
RECURSIVE join(_, _)
join(sep, parts) ==
    IF Len(parts) <= 1 THEN parts
    ELSE <<Head(parts), Separator(sep)>> \o join(sep, Tail(parts))

(***************************************************************************)
(* sqlglot, as far as instrument_sql relies on it.  The library may be     *)
(* missing.  parse raises on an unknown dialect and on a malformed         *)
(* statement; a blank chunk comes back as a None entry, or as no entry.    *)
(* Expression.sql prints a tree as the generator of the dialect does.      *)
(***************************************************************************)
Missing == [installed |-> FALSE, blank_statement |-> "None"]
Installed == [installed |-> TRUE, blank_statement |-> "None"]
InstalledSkippingBlanks == [installed |-> TRUE, blank_statement |-> "skipped"]

KnownDialects == {"postgres", "duckdb"}

chunks_of(text) == [i \in 1..((Len(text) + 1) \div 2) |-> text[2 * i - 1]]

RECURSIVE parsed_entries(_, _)
parsed_entries(chunks, lib) ==
    IF chunks = << >> THEN << >>
    ELSE (IF Head(chunks).kind = "statement" THEN <<Head(chunks).tree>>
          ELSE IF lib.blank_statement = "None" THEN <<None>>
          ELSE << >>)
         \o parsed_entries(Tail(chunks), lib)

parse(text, read, lib) ==
    LET chunks == chunks_of(text) IN
    IF read \notin KnownDialects \/ \E i \in 1..Len(chunks) : chunks[i].kind = "malformed"
    THEN [error |-> TRUE, expressions |-> << >>]
    ELSE [error |-> FALSE, expressions |-> parsed_entries(chunks, lib)]

sql(e, d) == Statement(e, d)

(***************************************************************************)
(* instrument_sql and patch_compiled_sql                                   *)
(***************************************************************************)
Returned(text) == [raised |-> FALSE, value |-> text]
Raised(exception) == [raised |-> TRUE, value |-> <<[kind |-> exception]>>]
NoResult == [raised |-> FALSE, value |-> << >>]

(* faulty variant: the early return gives an empty text *)
return_nothing(text) == Returned(<< >>)

(* return compiled_sql *)
return_original(text) == Returned(text)

(* faulty variant: the transformed statements are collected last first *)
transformed_reversed(expressions) ==
    [i \in 1..Len(expressions) |->
        Tree(expressions[Len(expressions) + 1 - i].stmt,
             _inject_lineage(expressions[Len(expressions) + 1 - i].stmt,
                             expressions[Len(expressions) + 1 - i].blocks))]

(* for expression in expressions: transformed.append(_inject_lineage(expression)) *)
transformed_of(expressions) ==
    [i \in 1..Len(expressions) |->
        Tree(expressions[i].stmt, _inject_lineage(expressions[i].stmt, expressions[i].blocks))]

instrument_sql(text, d, lib) ==
    IF ~lib.installed THEN return_original(text)
    ELSE LET parsed == parse(text, d, lib) IN
         IF parsed.error THEN return_original(text)
         ELSE IF parsed.expressions = << >> THEN return_original(text)
         ELSE IF \E i \in 1..Len(parsed.expressions) : parsed.expressions[i] = None
              THEN Raised("AttributeError")
         ELSE LET transformed == transformed_of(parsed.expressions) IN
              Returned(join(";\n", [i \in 1..Len(transformed) |-> sql(transformed[i], d)]))

patch_compiled_sql(text, lib) == instrument_sql(text, "postgres", lib)

(***************************************************************************)
(* Python values of the rows: None, str, list, int.                        *)
(***************************************************************************)
NoneV == [t |-> "none"]
StrV(x) == [t |-> "str", v |-> x]
ListV(xs) == [t |-> "list", v |-> xs]
IntV(n) == [t |-> "int", v |-> n]

(* truth value of a Python object *)
truthy(x) ==
    CASE x.t = "none" -> FALSE
      [] x.t = "int" -> x.v # 0
      [] OTHER -> Len(x.v) > 0

(* dict.get(key): None when the key is absent *)
get(row, key) == IF key \in DOMAIN row THEN row[key] ELSE NoneV

(* str.startswith(prefix) and the slice s[n:] *)
startswith(x, prefix) ==
    /\ Len(x) >= Len(prefix)
    /\ SubSeq(x, 1, Len(prefix)) = prefix

slice_from(x, n) == SubSeq(x, n + 1, Len(x))

(***************************************************************************)
(* utils/uuid.py: new_trace_id is a deterministic UUID5 of the row without *)
(* its _row_trace_id, or of "empty-row" when nothing is left.              *)
(***************************************************************************)
deterministic_uuid(payload) == [t |-> "str", v |-> <<"uuid5">>, of |-> payload]

new_trace_id(row) ==
    LET scrubbed == [k \in DOMAIN row \ {"_row_trace_id"} |-> row[k]]
    IN  deterministic_uuid(IF DOMAIN scrubbed = {} THEN [seed |-> "empty-row"] ELSE scrubbed)

(***************************************************************************)
(* RowLineageTracer.build_mappings, tokens mode.                           *)
(***************************************************************************)
_ensure_iter(rows) == rows

mapping_record(src_model, tgt_model, source_trace, target_trace, compiled_sql, executed_at) ==
    [source_model |-> src_model,
     target_model |-> tgt_model,
     source_trace_id |-> source_trace,
     target_trace_id |-> target_trace,
     compiled_sql |-> compiled_sql,
     executed_at |-> executed_at]

(* if isinstance(parent_tokens, list): tokens_list = parent_tokens; a str is passed over *)
tokens_list_of(parent_tokens) ==
    IF parent_tokens.t = "list" THEN parent_tokens.v ELSE << >>

(* faulty variant: the prefix is the model name without the colon *)
token_prefix_bare(src_model) == src_model

token_prefix(src_model) == src_model \o <<":">>

(* faulty variant: the token is compared with the model name, without the colon *)
token_matches_name(token, src_model) ==
    /\ token.t = "str"
    /\ startswith(token.v, src_model)

token_matches(token, src_model) ==
    /\ token.t = "str"
    /\ startswith(token.v, token_prefix(src_model))

source_trace_of(token, src_model) == StrV(slice_from(token.v, Len(token_prefix(src_model))))

(* for token in tokens_list: ... mappings.append({...}) *)
RECURSIVE token_mappings(_, _, _, _, _, _)
token_mappings(tokens_list, target_trace, src_model, tgt_model, compiled_sql, executed_at) ==
    IF tokens_list = << >> THEN << >>
    ELSE (IF token_matches(Head(tokens_list), src_model)
            THEN <<mapping_record(src_model, tgt_model,
                                  source_trace_of(Head(tokens_list), src_model),
                                  target_trace, compiled_sql, executed_at)>>
            ELSE << >>)
         \o token_mappings(Tail(tokens_list), target_trace, src_model, tgt_model,
                           compiled_sql, executed_at)

target_trace_of(target_row) ==
    IF truthy(get(target_row, "_row_trace_id"))
    THEN get(target_row, "_row_trace_id")
    ELSE new_trace_id(target_row)

row_mappings(target_row, src_model, tgt_model, compiled_sql, executed_at) ==
    LET parent_tokens == get(target_row, "_row_parent_trace_ids") IN
    IF truthy(parent_tokens)
    THEN token_mappings(tokens_list_of(parent_tokens), target_trace_of(target_row),
                        src_model, tgt_model, compiled_sql, executed_at)
    ELSE << >>

(* for target_row in resolved_targets: ... *)
RECURSIVE rows_mappings(_, _, _, _, _)
rows_mappings(rows, src_model, tgt_model, compiled_sql, executed_at) ==
    IF rows = << >> THEN << >>
    ELSE row_mappings(Head(rows), src_model, tgt_model, compiled_sql, executed_at)
         \o rows_mappings(Tail(rows), src_model, tgt_model, compiled_sql, executed_at)

(* faulty variant: without a token match the rows are paired by position *)
build_mappings_with_fallback(src_rows, tgt_rows, src_model, tgt_model, compiled_sql, executed_at) ==
    LET found == rows_mappings(_ensure_iter(tgt_rows), src_model, tgt_model,
                               compiled_sql, executed_at)
        n == IF Len(src_rows) < Len(tgt_rows) THEN Len(src_rows) ELSE Len(tgt_rows)
    IN  IF found # << >> THEN found
        ELSE [i \in 1..n |->
                mapping_record(src_model, tgt_model,
                               IF truthy(get(src_rows[i], "_row_trace_id"))
                               THEN get(src_rows[i], "_row_trace_id")
                               ELSE new_trace_id(src_rows[i]),
                               target_trace_of(tgt_rows[i]), compiled_sql, executed_at)]

build_mappings(src_rows, tgt_rows, src_model, tgt_model, compiled_sql, executed_at) ==
    rows_mappings(_ensure_iter(tgt_rows), src_model, tgt_model, compiled_sql, executed_at)

(***************************************************************************)
(* RowLineageTracer.build_mappings, heuristic mode.  A row is a function   *)
(* from its column names to its values.                                    *)
(***************************************************************************)
shared_keys(source_row, target_row) ==
    (DOMAIN source_row \cap DOMAIN target_row) \ {"_row_trace_id"}

(* faulty variant: one shared column with equal values is enough *)
_rows_share_any_value(source_row, target_row) ==
    /\ DOMAIN source_row # {}
    /\ DOMAIN target_row # {}
    /\ \E key \in shared_keys(source_row, target_row) : source_row[key] = target_row[key]

_rows_share_values(source_row, target_row) ==
    /\ DOMAIN source_row # {}
    /\ DOMAIN target_row # {}
    /\ shared_keys(source_row, target_row) # {}
    /\ \A key \in shared_keys(source_row, target_row) : source_row[key] = target_row[key]

(* [(row, row.get("_row_trace_id") or new_trace_id(row)) for row in resolved_targets] *)
target_pairs_of(resolved_targets) ==
    [i \in 1..Len(resolved_targets) |->
        <<resolved_targets[i], target_trace_of(resolved_targets[i])>>]

(* for source_row in resolved_sources: if _rows_share_values(...): matched.append(...) *)
RECURSIVE matched_sources(_, _, _)
matched_sources(resolved_sources, target_row, target_trace) ==
    IF resolved_sources = << >> THEN << >>
    ELSE (IF _rows_share_values(Head(resolved_sources), target_row)
            THEN << <<Head(resolved_sources), target_row, target_trace>> >>
            ELSE << >>)
         \o matched_sources(Tail(resolved_sources), target_row, target_trace)

(* for target_row, target_trace in target_pairs: ... *)
RECURSIVE matched_of(_, _)
matched_of(target_pairs, resolved_sources) ==
    IF target_pairs = << >> THEN << >>
    ELSE matched_sources(resolved_sources, Head(target_pairs)[1], Head(target_pairs)[2])
         \o matched_of(Tail(target_pairs), resolved_sources)

(* faulty variant: only the first rows are paired *)
zip_first(resolved_sources, resolved_targets, traces) ==
    IF resolved_sources = << >> \/ resolved_targets = << >> THEN << >>
    ELSE << <<resolved_sources[1], resolved_targets[1], traces[1]>> >>

(* list(zip(resolved_sources, resolved_targets, traces)): as long as the shortest *)
zip(resolved_sources, resolved_targets, traces) ==
    LET n == IF Len(resolved_sources) < Len(resolved_targets)
             THEN Len(resolved_sources) ELSE Len(resolved_targets)
    IN  [i \in 1..n |-> <<resolved_sources[i], resolved_targets[i], traces[i]>>]

(* source_row.get("_row_trace_id") or new_trace_id(source_row) *)
source_trace_id_of(source_row) ==
    IF truthy(get(source_row, "_row_trace_id"))
    THEN get(source_row, "_row_trace_id")
    ELSE new_trace_id(source_row)

build_mappings_heuristic(src_rows, tgt_rows, src_model, tgt_model, compiled_sql, executed_at) ==
    LET resolved_sources == _ensure_iter(src_rows)
        resolved_targets == _ensure_iter(tgt_rows)
        target_pairs == target_pairs_of(resolved_targets)
        found == matched_of(target_pairs, resolved_sources)
        matched == IF found = << >>
                   THEN zip(resolved_sources, resolved_targets,
                            [i \in 1..Len(target_pairs) |-> target_pairs[i][2]])
                   ELSE found
    IN  [i \in 1..Len(matched) |->
            mapping_record(src_model, tgt_model, source_trace_id_of(matched[i][1]),
                           matched[i][3], compiled_sql, executed_at)]

(***************************************************************************)
(* The database that runs the instrumented query, as far as the token      *)
(* column goes.  A row combination binds every source alias of the block   *)
(* to one row of that source: a table row has a trace id, a subquery row   *)
(* has a parent-token array or NULL.                                       *)
(***************************************************************************)
RECURSIVE dedup(_)
dedup(xs) ==
    IF xs = << >> THEN << >>
    ELSE LET d == dedup(SubSeq(xs, 1, Len(xs) - 1)) IN
         IF \E i \in 1..Len(d) : d[i] = xs[Len(xs)] THEN d ELSE d \o <<xs[Len(xs)]>>

RECURSIVE flatten(_)
flatten(xss) == IF xss = << >> THEN << >> ELSE Head(xss) \o flatten(Tail(xss))

(* the aliases an expression reads columns from *)
RECURSIVE ref_aliases(_)
ref_aliases(e) ==
    CASE e.kind = "Property" -> {e.this.this}
      [] e.kind \in {"Coalesce", "Cast", "ArrayUnique", "ArrayUniqueAgg"} -> ref_aliases(e.this)
      [] e.kind = "ArrayConcat" -> ref_aliases(e.this) \cup ref_aliases(e.expression)
      [] e.kind \in {"Array", "Concat"} ->
            UNION { ref_aliases(e.expressions[i]) : i \in 1..Len(e.expressions) }
      [] OTHER -> {}

(* the value of an array expression on one row combination *)
RECURSIVE eval_array(_, _)
eval_array(e, env) ==
    CASE e.kind = "Array" ->
            ListV([i \in 1..Len(e.expressions) |->
                    StrV(e.expressions[i].expressions[1].this
                         \o env[e.expressions[i].expressions[2].this.this.this].trace)])
      [] e.kind = "Property" -> env[e.this.this].tokens
      [] e.kind = "Coalesce" ->
            LET x == eval_array(e.this, env) IN
            IF x.t = "none" THEN eval_array(e.expressions[1], env) ELSE x
      [] e.kind = "ArrayConcat" ->
            ListV(eval_array(e.this, env).v \o eval_array(e.expression, env).v)
      [] e.kind = "ArrayUnique" -> ListV(dedup(eval_array(e.this, env).v))

RECURSIVE has_aggregate_call(_)
has_aggregate_call(e) ==
    CASE e.kind \in AggFuncKinds -> TRUE
      [] e.kind = "Alias" -> has_aggregate_call(e.this)
      [] e.kind = "Add" -> has_aggregate_call(e.this) \/ has_aggregate_call(e.expression)
      [] OTHER -> FALSE

direct_sources(node) ==
    (IF node.from.kind = "From" THEN <<node.from.this>> ELSE << >>)
    \o [j \in 1..Len(node.joins) |-> node.joins[j].this]

direct_aliases(node) ==
    [i \in 1..Len(direct_sources(node)) |-> alias_or_name(direct_sources(node)[i])]

parent_tokens_expr(node) ==
    LET i == CHOOSE k \in 1..Len(node.expressions) :
                 /\ node.expressions[k].kind = "Alias"
                 /\ node.expressions[k].alias = PARENT_TRACE_COLUMN
    IN  node.expressions[i].this

(* the query is rejected: a column of a relation that is not in scope, an
   ambiguous alias, or an ungrouped column beside an aggregate *)
query_fails(node) ==
    LET e == parent_tokens_expr(node)
        als == direct_aliases(node)
    IN  \/ \E a \in ref_aliases(e) : \A i \in 1..Len(als) : als[i] # a
        \/ \E i, j \in 1..Len(als) : i # j /\ als[i] = als[j]
        \/ /\ e.kind = "ArrayUnique"
           /\ \/ node.group # << >>
              \/ \E i \in 1..Len(node.expressions) : has_aggregate_call(node.expressions[i])

Digits == <<"1", "2", "3", "4", "5", "6", "7", "8", "9">>

result_row(k, tokens) ==
    [_row_trace_id |-> StrV(<<"r", Digits[k]>>), _row_parent_trace_ids |-> ListV(tokens)]

(* the rows the block returns for the row combinations rows: one row per
   combination, or one row for them all when the token column aggregates *)
query_rows(node, rows) ==
    LET e == parent_tokens_expr(node) IN
    IF e.kind = "ArrayUniqueAgg"
    THEN <<result_row(1, dedup(flatten([r \in 1..Len(rows) |-> eval_array(e.this, rows[r]).v])))>>
    ELSE [r \in 1..Len(rows) |-> result_row(r, eval_array(e, rows[r]).v)]

(***************************************************************************)
(* The statements the model is run on.  Block 1 is drawn from every        *)
(* combination of output list, FROM source, JOIN list and modifier; a      *)
(* subquery it reads is block 2 (FROM) or block 2 + j (j-th JOIN); the     *)
(* statement places block 1 at top level or nests it in block 0.           *)
(***************************************************************************)
T1 == <<"t", "1">>
T2 == <<"t", "2">>
T3 == <<"t", "3">>

Entries ==
    { Column(<<"id">>),
      Count,
      Alias(Count, <<"n">>),
      Add(Count, Literal(<<"1">>)),
      Column(TRACE_COLUMN),
      Column(PARENT_TRACE_COLUMN),
      Alias(Column(<<"x">>), TRACE_COLUMN),
      Alias(Array(<< >>), PARENT_TRACE_COLUMN) }

ExprLists == UNION { [1..n -> Entries] : n \in 1..MaxExprs }

FromOptions ==
    { None,
      From(Table(T1, NoName)),
      From(Table(T1, <<"a">>)),
      From(Subquery(2, <<"s">>)),
      From(Subquery(2, NoName)) }

JoinOption(c, j) ==
    CASE c = "table" -> Join(Table(T2, <<"b">>), EQ)
      [] c = "self" -> Join(Table(T1, <<"b">>), EQ)
      [] c = "subquery" -> Join(Subquery(2 + j, <<"q">>), EQ)
      [] c = "on_subquery" -> Join(Table(T2, NoName), In(Subquery(2 + j, NoName)))

JoinChoices == {"table", "self", "subquery", "on_subquery"}

JoinLists ==
    UNION { { [j \in 1..n |-> JoinOption(cs[j], j)] : cs \in [1..n -> JoinChoices] }
            : n \in 0..MaxJoins }

Modifiers ==
    { [group |-> << >>, distinct |-> FALSE],
      [group |-> <<Column(<<"region">>)>>, distinct |-> FALSE],
      [group |-> << >>, distinct |-> TRUE] }

InnerBlock ==
    Select(<<Column(<<"id">>)>>, From(Table(T3, NoName)), << >>, None, << >>, FALSE, << >>)

Plain(f, js, w, c) == Select(<<Column(<<"id">>)>>, f, js, w, << >>, FALSE, c)

(* the statement shapes: [stmt, outer] with outer the record of block 0, if any *)
Shapes ==
    { [stmt |-> SelectRef(1), outer |-> None],
      [stmt |-> [kind |-> "Union", this |-> SelectRef(1), expression |-> SelectRef(0)],
       outer |-> Plain(From(Table(T2, NoName)), << >>, None, << >>)],
      [stmt |-> [kind |-> "Insert", this |-> Table(T2, NoName), expression |-> SelectRef(1)],
       outer |-> None],
      [stmt |-> SelectRef(0),
       outer |-> Plain(From(Table(<<"c">>, NoName)), << >>, None, <<CTE(1, <<"c">>)>>)],
      [stmt |-> SelectRef(0),
       outer |-> Plain(From(Subquery(1, <<"o">>)), << >>, None, << >>)],
      [stmt |-> SelectRef(0),
       outer |-> Plain(From(Table(T2, NoName)), <<Join(Subquery(1, <<"o">>), EQ)>>, None, << >>)],
      [stmt |-> SelectRef(0),
       outer |-> Plain(From(Table(T2, NoName)), << >>, In(Subquery(1, NoName)), << >>)],
      [stmt |-> SelectRef(0),
       outer |-> Select(<<Alias(Subquery(1, NoName), <<"x">>)>>, From(Table(T2, NoName)),
                        << >>, None, << >>, FALSE, << >>)] }

(* statements without any Select block *)
NoSelectStatements ==
    { [kind |-> "Drop", this |-> Table(T1, NoName)],
      [kind |-> "Insert", this |-> Table(T1, NoName), expression |-> None] }

inner_ids(f, js) ==
    (IF f.kind = "From" /\ f.this.kind = "Subquery" THEN {2} ELSE {})
    \cup { 2 + j : j \in { k \in 1..Len(js) :
                            js[k].this.kind = "Subquery" \/ js[k].on.kind = "In" } }

arena(focus, shape) ==
    LET ids == {1} \cup inner_ids(focus.from, focus.joins)
               \cup (IF shape.outer = None THEN {} ELSE {0})
    IN  [i \in ids |-> IF i = 1 THEN focus ELSE IF i = 0 THEN shape.outer ELSE InnerBlock]

(* every output list and modifier, over no source or one table, in every shape *)
ProjectionFamily ==
    { [focus |-> Select(es, f, << >>, None, m.group, m.distinct, << >>), shape |-> shape] :
        es \in ExprLists, f \in {None, From(Table(T1, NoName))},
        m \in Modifiers, shape \in Shapes }

(* every FROM source, JOIN list and modifier, under a one-entry output list, at top level *)
SourceFamily ==
    { [focus |-> Select(es, fj.f, fj.js, None, m.group, m.distinct, << >>),
       shape |-> [stmt |-> SelectRef(1), outer |-> None]] :
        es \in [1..1 -> Entries],
        fj \in { x \in [f : FromOptions, js : JoinLists] : x.f = None => x.js = << >> },
        m \in Modifiers }

(***************************************************************************)
(* The queries that are also run: block 1 at top level over up to          *)
(* 1 + MaxExecJoins aliased sources, with up to MaxRows row combinations.  *)
(***************************************************************************)
ExecExprLists == { <<Column(<<"id">>)>>, <<Alias(Count, <<"n">>)>> }

ExecFromOptions ==
    { None,
      From(Table(T1, NoName)),
      From(Table(T1, <<"a">>)),
      From(Subquery(2, <<"s">>)) }

ExecJoinLists ==
    UNION { { [j \in 1..n |-> JoinOption(cs[j], j)] :
                cs \in [1..n -> {"table", "self", "subquery"}] }
            : n \in 0..MaxExecJoins }

ExecFamily ==
    { Select(es, fj.f, fj.js, None, m.group, m.distinct, << >>) :
        es \in ExecExprLists,
        fj \in { x \in [f : ExecFromOptions, js : ExecJoinLists] : x.f = None => x.js = << >> },
        m \in Modifiers }

TableRows == { [trace |-> <<"u">>], [trace |-> <<"v">>] }

SubqueryRows ==
    { [tokens |-> NoneV], [tokens |-> ListV(<<StrV(T3 \o <<":", "u">>)>>)] }

RowCombinations(node) ==
    LET srcs == direct_sources(node)
        als == { alias_or_name(srcs[i]) : i \in 1..Len(srcs) }
        kind_of(a) == (CHOOSE x \in { srcs[i] : i \in 1..Len(srcs) } : alias_or_name(x) = a).kind
    IN  { env \in [als -> TableRows \cup SubqueryRows] :
            \A a \in als : env[a] \in (IF kind_of(a) = "Table" THEN TableRows ELSE SubqueryRows) }

RowGroups(node) == UNION { [1..n -> RowCombinations(node)] : n \in 1..MaxRows }

(***************************************************************************)
(* The rows build_mappings is called on directly: one row with up to       *)
(* MaxTokens parent tokens, or up to MaxTargetRows rows with at most one.  *)
(***************************************************************************)
TokenUniverse ==
    { StrV(<<"a", ":", "u">>), StrV(<<"a", ":", "v">>), StrV(<<"b", ":", "u">>),
      StrV(<<"a", "b", ":", "u">>), StrV(<<"a">>), StrV(<<"a", ":">>), IntV(1) }

ParentValues(n) ==
    { ListV(l) : l \in UNION { [1..k -> TokenUniverse] : k \in 0..n } }
    \cup { NoneV, StrV(<<"{", "a", ":", "u", "}">>) }

TargetRows(n) ==
    { [_row_trace_id |-> tr, _row_parent_trace_ids |-> p] :
        tr \in { StrV(<<"r", "1">>), StrV(<<"r", "2">>), NoneV }, p \in ParentValues(n) }
    \cup { [id |-> IntV(1)] }

TargetRowLists ==
    [1..1 -> TargetRows(MaxTokens)]
    \cup UNION { [1..n -> TargetRows(1)] : n \in 0..MaxTargetRows }

(* the upstream rows handed over with them: one row, which shares the value
   of id with a target row *)
UpstreamRows == <<[_row_trace_id |-> StrV(<<"u">>), id |-> IntV(1)]>>

ModelNames == { <<"a">>, <<"b">>, <<"c">>, T1, T2 }
TargetModel == <<"t", "g", "t">>
CompiledSql == <<"s", "q", "l">>
ExecutedAt == <<"n", "o", "w">>

(* build_lineage_graph and generate_lineage_for_project not called *)
GraphIdle ==
    /\ queue = << >>
    /\ visited = {}
    /\ graph = << >>

ProjectIdle ==
    /\ manifest = << >>
    /\ export_format = NoName
    /\ edges = << >>
    /\ calls = << >>
    /\ written = << >>
    /\ sink = << >>
    /\ all_mappings = << >>

Init ==
    /\ \/ \E t \in ProjectionFamily \cup SourceFamily :
            /\ stmt = t.shape.stmt
            /\ blocks = arena(t.focus, t.shape)
            /\ pc = "start"
            /\ db = << >>
            /\ target_rows = << >>
            /\ source_rows = << >>
       \/ /\ stmt \in NoSelectStatements
          /\ blocks = << >>
          /\ pc = "start"
          /\ db = << >>
          /\ target_rows = << >>
          /\ source_rows = << >>
       \/ /\ stmt = None
          /\ blocks = << >>
          /\ pc = "executed"
          /\ db = << >>
          /\ target_rows \in TargetRowLists
          /\ source_rows = UpstreamRows
    /\ input = blocks
    /\ select_nodes = << >>
    /\ pass = 1
    /\ built = [b \in DOMAIN blocks |-> NotBuilt]
    /\ first = << >>
    /\ source_model = NoName
    /\ mappings = << >>
    /\ raw_sql = << >>
    /\ dialect = NoName
    /\ sqlglot = Installed
    /\ result = NoResult
    /\ GraphIdle
    /\ ProjectIdle

(* select_nodes = list(expression.find_all(exp.Select)) *)
InjectLineage ==
    /\ pc = "start"
    /\ select_nodes' = select_nodes_of(stmt, blocks)
    /\ pc' = "loop"
    /\ UNCHANGED <<stmt, blocks, input, pass, built, first>>
    /\ UNCHANGED tracer_vars
    /\ UNCHANGED sql_vars
    /\ UNCHANGED graph_vars
    /\ UNCHANGED project_vars

(* for select_node in select_nodes: _process_select_node(select_node) *)
ProcessSelectNode ==
    /\ pc = "loop"
    /\ select_nodes # << >>
    /\ LET b == Head(select_nodes) IN
        /\ blocks' = [blocks EXCEPT ![b] = _process_select_node(blocks[b], blocks)]
        /\ built' = IF pass = 1
                    THEN [built EXCEPT ![b] = build_record(blocks[b], blocks)]
                    ELSE built
    /\ select_nodes' = Tail(select_nodes)
    /\ UNCHANGED <<stmt, input, pc, pass, first>>
    /\ UNCHANGED tracer_vars
    /\ UNCHANGED sql_vars
    /\ UNCHANGED graph_vars
    /\ UNCHANGED project_vars

(* return expression *)
Return ==
    /\ pc = "loop"
    /\ select_nodes = << >>
    /\ pc' = "done"
    /\ first' = IF pass = 1 THEN blocks ELSE first
    /\ UNCHANGED <<stmt, blocks, input, select_nodes, pass, built>>
    /\ UNCHANGED tracer_vars
    /\ UNCHANGED sql_vars
    /\ UNCHANGED graph_vars
    /\ UNCHANGED project_vars

(* _inject_lineage applied to the tree it has returned *)
InjectAgain ==
    /\ pc = "done"
    /\ pass = 1
    /\ pass' = 2
    /\ pc' = "start"
    /\ UNCHANGED <<stmt, blocks, input, select_nodes, built, first>>
    /\ UNCHANGED tracer_vars
    /\ UNCHANGED sql_vars
    /\ UNCHANGED graph_vars
    /\ UNCHANGED project_vars

(* the database runs the instrumented query on the row combinations *)
Execute ==
    /\ pc = "done"
    /\ pass = 1
    /\ stmt = SelectRef(1)
    /\ input[1] \in ExecFamily
    /\ \E rows \in RowGroups(input[1]) :
        /\ db' = rows
        /\ IF query_fails(blocks[1])
           THEN /\ pc' = "failed"
                /\ target_rows' = << >>
           ELSE /\ pc' = "executed"
                /\ target_rows' = query_rows(blocks[1], rows)
    /\ UNCHANGED <<source_model, mappings, source_rows>>
    /\ UNCHANGED instr_vars
    /\ UNCHANGED sql_vars
    /\ UNCHANGED graph_vars
    /\ UNCHANGED project_vars

(* tracer.build_mappings(source_rows, target_rows, source_model, ...) in tokens mode *)
BuildMappings ==
    /\ pc = "executed"
    /\ \E m \in ModelNames :
        /\ source_model' = m
        /\ mappings' = build_mappings(source_rows, target_rows, m, TargetModel,
                                      CompiledSql, ExecutedAt)
    /\ pc' = "mapped"
    /\ UNCHANGED <<db, target_rows, source_rows>>
    /\ UNCHANGED instr_vars
    /\ UNCHANGED sql_vars
    /\ UNCHANGED graph_vars
    /\ UNCHANGED project_vars

Next ==
    \/ InjectLineage
    \/ ProcessSelectNode
    \/ Return
    \/ InjectAgain
    \/ Execute
    \/ BuildMappings

Spec == Init /\ [][Next]_vars

(***************************************************************************)
(* instrument_sql on texts of up to MaxStatements chunks.                  *)
(***************************************************************************)
SelectIdFromT1 ==
    Tree(SelectRef(1), <<Plain(From(Table(T1, NoName)), << >>, None, << >>)>>)

SelectWithTraceColumn ==
    Tree(SelectRef(1),
         <<Select(<<Alias(TRACE_EXPRESSION, TRACE_COLUMN), Column(<<"id">>)>>,
                  From(Table(<<"my_table">>, NoName)), << >>, None, << >>, FALSE, << >>)>>)

SelectLiteral ==
    Tree(SelectRef(1),
         <<Select(<<Alias(Literal(<<"1">>), <<"x">>)>>, None, << >>, None, << >>, FALSE, << >>)>>)

SelectFromSubquery ==
    Tree(SelectRef(1), <<Plain(From(Subquery(2, <<"s">>)), << >>, None, << >>), InnerBlock>>)

SelectDistinctId ==
    Tree(SelectRef(1),
         <<Select(<<Column(<<"id">>)>>, From(Table(<<"t">>, NoName)), << >>, None, << >>,
                  TRUE, << >>)>>)

DropTable == Tree([kind |-> "Drop", this |-> Table(T1, NoName)], << >>)

AlreadyInstrumented ==
    Tree(SelectIdFromT1.stmt, _inject_lineage(SelectIdFromT1.stmt, SelectIdFromT1.blocks))

StatementTrees ==
    { SelectIdFromT1, SelectWithTraceColumn, SelectLiteral, SelectFromSubquery,
      SelectDistinctId, DropTable, AlreadyInstrumented }

Chunks ==
    { Statement(t, f) : t \in StatementTrees, f \in {"written", "postgres"} }
    \cup { Blank, Malformed }

Separators == { ";", ";\n" }

Texts ==
    UNION { { join(sep, cs) : cs \in [1..n -> Chunks], sep \in Separators }
            : n \in 1..MaxStatements }

Dialects == KnownDialects \cup { "nosuch" }

Libraries == { Missing, Installed, InstalledSkippingBlanks }

SqlInit ==
    /\ pc = "sql"
    /\ raw_sql \in Texts
    /\ sqlglot \in Libraries
    /\ dialect = NoName
    /\ result = NoResult
    /\ stmt = None
    /\ blocks = << >>
    /\ input = << >>
    /\ select_nodes = << >>
    /\ pass = 1
    /\ built = << >>
    /\ first = << >>
    /\ db = << >>
    /\ target_rows = << >>
    /\ source_model = NoName
    /\ mappings = << >>
    /\ source_rows = << >>
    /\ GraphIdle
    /\ ProjectIdle

(* instrument_sql(compiled_sql, dialect) *)
InstrumentSql ==
    /\ pc = "sql"
    /\ \E d \in Dialects :
        /\ dialect' = d
        /\ result' = instrument_sql(raw_sql, d, sqlglot)
    /\ pc' = "instrumented"
    /\ UNCHANGED <<raw_sql, sqlglot>>
    /\ UNCHANGED instr_vars
    /\ UNCHANGED tracer_vars
    /\ UNCHANGED graph_vars
    /\ UNCHANGED project_vars

(* patch_compiled_sql(compiled_sql) *)
PatchCompiledSql ==
    /\ pc = "sql"
    /\ dialect' = "postgres"
    /\ result' = patch_compiled_sql(raw_sql, sqlglot)
    /\ pc' = "patched"
    /\ UNCHANGED <<raw_sql, sqlglot>>
    /\ UNCHANGED instr_vars
    /\ UNCHANGED tracer_vars
    /\ UNCHANGED graph_vars
    /\ UNCHANGED project_vars

SqlNext ==
    \/ InstrumentSql
    \/ PatchCompiledSql

SqlSpec == SqlInit /\ [][SqlNext]_vars

(***************************************************************************)
(* build_mappings in heuristic mode, on up to MaxHeuristicRows upstream    *)
(* and target rows: rows with and without a trace id, with one or two      *)
(* columns in common, with none, and with only the trace id in common.     *)
(***************************************************************************)
HeuristicSourceRows ==
    { [_row_trace_id |-> StrV(<<"u">>), region |-> IntV(1), id |-> IntV(1)],
      [_row_trace_id |-> StrV(<<"v">>), region |-> IntV(1), id |-> IntV(2)],
      [region |-> IntV(2), id |-> IntV(3)],
      [_row_trace_id |-> StrV(<<"w">>), x |-> IntV(1)],
      [_row_trace_id |-> StrV(<<"r", "1">>)] }

HeuristicTargetRows ==
    { [region |-> IntV(1), total |-> IntV(3)],
      [_row_trace_id |-> StrV(<<"r", "1">>), region |-> IntV(1), id |-> IntV(2)],
      [_row_trace_id |-> StrV(<<"r", "2">>), region |-> IntV(2)],
      [_row_trace_id |-> NoneV, y |-> IntV(1)],
      [_row_trace_id |-> StrV(<<"r", "1">>)] }

HeuristicInit ==
    /\ pc = "heuristic"
    /\ source_rows \in UNION { [1..n -> HeuristicSourceRows] : n \in 0..MaxHeuristicRows }
    /\ target_rows \in UNION { [1..n -> HeuristicTargetRows] : n \in 0..MaxHeuristicRows }
    /\ source_model = NoName
    /\ mappings = << >>
    /\ db = << >>
    /\ stmt = None
    /\ blocks = << >>
    /\ input = << >>
    /\ select_nodes = << >>
    /\ pass = 1
    /\ built = << >>
    /\ first = << >>
    /\ raw_sql = << >>
    /\ dialect = NoName
    /\ sqlglot = Installed
    /\ result = NoResult
    /\ GraphIdle
    /\ ProjectIdle

(* tracer.build_mappings(source_rows, target_rows, source_model, ...) with
   config.lineage_mode = "heuristic" *)
BuildMappingsHeuristic ==
    /\ pc = "heuristic"
    /\ \E m \in { <<"a">>, <<"b">> } :
        /\ source_model' = m
        /\ mappings' = build_mappings_heuristic(source_rows, target_rows, m, TargetModel,
                                                CompiledSql, ExecutedAt)
    /\ pc' = "matched"
    /\ UNCHANGED <<db, target_rows, source_rows>>
    /\ UNCHANGED instr_vars
    /\ UNCHANGED sql_vars
    /\ UNCHANGED graph_vars
    /\ UNCHANGED project_vars

HeuristicNext == BuildMappingsHeuristic

HeuristicSpec == HeuristicInit /\ [][HeuristicNext]_vars

(***************************************************************************)
(* auto.py: generate_lineage_for_project.  The manifest is the list of its *)
(* nodes in dict order; a node has a uid, a resource type, a name and the  *)
(* uids it depends on.  The export file is the list of records it holds.   *)
(***************************************************************************)
Node(uid, resource_type, depends_on) ==
    [unique_id |-> uid, resource_type |-> resource_type, name |-> <<uid>>,
     depends_on |-> depends_on]

queryable_types == {"model", "seed", "snapshot"}

(* faulty variant: every node of the manifest is taken as queryable *)
all_nodes(nodes) == nodes

(* {uid: n for uid, n in nodes.items() if n.get("resource_type") in queryable_types} *)
queryable_nodes(nodes) ==
    SelectSeq(nodes, LAMBDA n : n.resource_type \in queryable_types)

(* queryable_nodes.get(upstream_uid) *)
get_node(nodes, uid) ==
    IF \E i \in 1..Len(nodes) : nodes[i].unique_id = uid
    THEN nodes[CHOOSE i \in 1..Len(nodes) : nodes[i].unique_id = uid]
    ELSE None

(* for upstream_uid in downstream.get("depends_on", {}).get("nodes", []): ... *)
RECURSIVE upstream_edges(_, _, _)
upstream_edges(uids, downstream, queryable) ==
    IF uids = << >> THEN << >>
    ELSE (IF get_node(queryable, Head(uids)) = None THEN << >>
          ELSE << <<get_node(queryable, Head(uids)), downstream>> >>)
         \o upstream_edges(Tail(uids), downstream, queryable)

(* for downstream_uid, downstream in queryable_nodes.items(): ... *)
RECURSIVE downstream_edges(_, _)
downstream_edges(downstreams, queryable) ==
    IF downstreams = << >> THEN << >>
    ELSE upstream_edges(Head(downstreams).depends_on, Head(downstreams), queryable)
         \o downstream_edges(Tail(downstreams), queryable)

_iter_lineage_edges(nodes) ==
    downstream_edges(queryable_nodes(nodes), queryable_nodes(nodes))

(* JSONLWriter.write: the file is opened in append mode *)
jsonl_write(file, records) == file \o records

(* ParquetWriter.write: nothing for an empty list, else the frame of the
   records is written to the path, replacing the file *)
parquet_write(file, records) == IF records = << >> THEN file ELSE records

(* if mappings: writer.write(mappings) *)
write_if_mappings(fmt, file, batches, records) ==
    IF records = << >> THEN [written |-> batches, sink |-> file]
    ELSE [written |-> Append(batches, records),
          sink |-> IF fmt = "jsonl" THEN jsonl_write(file, records)
                   ELSE parquet_write(file, records)]

(* what plugin.capture_lineage can return for an edge: up to MaxBatch records *)
Batches(upstream, downstream) ==
    { [i \in 1..k |->
        mapping_record(upstream.name, downstream.name, StrV(<<"s", Digits[i]>>),
                       StrV(<<"t">>), CompiledSql, ExecutedAt)] : k \in 0..MaxBatch }

Manifests ==
    { <<Node("n1", t[1], d[1]), Node("n2", t[2], d[2]), Node("n3", t[3], d[3])>> :
        t \in { <<"model", "model", "model">>, <<"seed", "snapshot", "model">>,
                 <<"model", "test", "model">>, <<"seed", "model", "test">>,
                 <<"analysis", "model", "snapshot">> },
        d \in { << >>, <<"n3">> }
              \X { << >>, <<"n1">>, <<"source.x">>, <<"source.x", "n1">> }
              \X { << >>, <<"n1">>, <<"n2">>, <<"n1", "n2">>, <<"n2", "n1">> } }

ProjectInit ==
    /\ pc = "project"
    /\ manifest \in Manifests
    /\ export_format \in {"jsonl", "parquet"}
    /\ edges = << >>
    /\ calls = << >>
    /\ written = << >>
    /\ sink = << >>
    /\ all_mappings = << >>
    /\ GraphIdle
    /\ stmt = None
    /\ blocks = << >>
    /\ input = << >>
    /\ select_nodes = << >>
    /\ pass = 1
    /\ built = << >>
    /\ first = << >>
    /\ db = << >>
    /\ target_rows = << >>
    /\ source_model = NoName
    /\ mappings = << >>
    /\ source_rows = << >>
    /\ raw_sql = << >>
    /\ dialect = NoName
    /\ sqlglot = Installed
    /\ result = NoResult

(* writer = _get_writer(...); all_mappings = []; the loop over
   _iter_lineage_edges(manifest) starts *)
GenerateLineage ==
    /\ pc = "project"
    /\ edges' = _iter_lineage_edges(manifest)
    /\ all_mappings' = << >>
    /\ pc' = "edges"
    /\ UNCHANGED <<manifest, export_format, calls, written, sink>>
    /\ UNCHANGED instr_vars
    /\ UNCHANGED tracer_vars
    /\ UNCHANGED sql_vars
    /\ UNCHANGED graph_vars

(* one round of the loop: capture_lineage for the edge, the write and the extend *)
CaptureEdge ==
    /\ pc = "edges"
    /\ edges # << >>
    /\ LET upstream == Head(edges)[1]
           downstream == Head(edges)[2]
       IN  \E batch \in Batches(upstream, downstream) :
            LET out == write_if_mappings(export_format, sink, written, batch) IN
            /\ calls' = Append(calls, [source_model |-> upstream.name,
                                       target_model |-> downstream.name,
                                       returned |-> batch])
            /\ written' = out.written
            /\ sink' = out.sink
            /\ all_mappings' = all_mappings \o batch
    /\ edges' = Tail(edges)
    /\ UNCHANGED <<manifest, export_format, pc>>
    /\ UNCHANGED instr_vars
    /\ UNCHANGED tracer_vars
    /\ UNCHANGED sql_vars
    /\ UNCHANGED graph_vars

(* return all_mappings *)
ReturnAllMappings ==
    /\ pc = "edges"
    /\ edges = << >>
    /\ pc' = "returned"
    /\ UNCHANGED project_vars
    /\ UNCHANGED instr_vars
    /\ UNCHANGED tracer_vars
    /\ UNCHANGED sql_vars
    /\ UNCHANGED graph_vars

ProjectNext ==
    \/ GenerateLineage
    \/ CaptureEdge
    \/ ReturnAllMappings

ProjectSpec == ProjectInit /\ [][ProjectNext]_vars

(***************************************************************************)
(* demo/ui/app.py: build_lineage_graph.  A row is named by its model and   *)
(* its trace id; the loop is taken one round (one pop and its for loop)    *)
(* at a time.                                                              *)
(***************************************************************************)
(* [m for m in mappings if m.target_trace_id == current_trace and m.target_model == current_model] *)
upstream_of(current_trace, current_model, ms) ==
    SelectSeq(ms, LAMBDA m : m.target_trace_id = current_trace /\ m.target_model = current_model)

(* the rows the lookup knows: those of the staging and mart models *)
row_lookup(model, trace_id) ==
    IF model = <<"src">> THEN NoneV ELSE [_row_trace_id |-> StrV(trace_id)]

hop(mapping) ==
    [source_model |-> mapping.source_model,
     target_model |-> mapping.target_model,
     source_trace_id |-> mapping.source_trace_id,
     target_trace_id |-> mapping.target_trace_id,
     compiled_sql |-> mapping.compiled_sql,
     executed_at |-> mapping.executed_at,
     row |-> row_lookup(mapping.source_model, mapping.source_trace_id)]

(* faulty variant: no row counts as visited *)
never_visited(node_id, seen) == FALSE

(* node_id in visited *)
is_visited(node_id, seen) == node_id \in seen

(* for mapping in upstream: ... *)
RECURSIVE expand(_, _)
expand(upstream, st) ==
    IF upstream = << >> THEN st
    ELSE LET mapping == Head(upstream)
             node_id == <<mapping.source_model, mapping.source_trace_id>>
         IN  IF is_visited(node_id, st.visited) THEN expand(Tail(upstream), st)
             ELSE expand(Tail(upstream),
                         [graph |-> Append(st.graph, hop(mapping)),
                          queue |-> Append(st.queue,
                                           <<mapping.source_trace_id, mapping.source_model>>),
                          visited |-> st.visited \cup {node_id}])

(* faulty variant: the last entry of the queue is taken *)
pop_last(q) == [item |-> q[Len(q)], rest |-> SubSeq(q, 1, Len(q) - 1)]

(* queue.pop(0) *)
pop_first(q) == [item |-> Head(q), rest |-> Tail(q)]

GraphTargetTrace == <<"m1">>
GraphTargetModel == <<"mart">>

MappingOf(src_model, source_trace, tgt_model, target_trace) ==
    mapping_record(src_model, tgt_model, source_trace, target_trace, CompiledSql, ExecutedAt)

(* mart m1 <- stg s1, stg s2 <- src x1, a second source row of stg s1, a way
   back from src x1 to mart m1, and a row of another model with the trace id
   of stg s1 *)
MappingUniverse ==
    { MappingOf(<<"stg">>, <<"s1">>, <<"mart">>, <<"m1">>),
      MappingOf(<<"stg">>, <<"s2">>, <<"mart">>, <<"m1">>),
      MappingOf(<<"src">>, <<"x1">>, <<"stg">>, <<"s1">>),
      MappingOf(<<"src">>, <<"x1">>, <<"stg">>, <<"s2">>),
      MappingOf(<<"src">>, <<"x2">>, <<"stg">>, <<"s1">>),
      MappingOf(<<"mart">>, <<"m1">>, <<"src">>, <<"x1">>),
      MappingOf(<<"src">>, <<"x2">>, <<"seed">>, <<"s1">>) }

MappingLists == UNION { [1..n -> MappingUniverse] : n \in 0..MaxMappings }

GraphInit ==
    /\ pc = "graph"
    /\ mappings \in MappingLists
    /\ GraphIdle
    /\ ProjectIdle
    /\ stmt = None
    /\ blocks = << >>
    /\ input = << >>
    /\ select_nodes = << >>
    /\ pass = 1
    /\ built = << >>
    /\ first = << >>
    /\ db = << >>
    /\ target_rows = << >>
    /\ source_model = NoName
    /\ source_rows = << >>
    /\ raw_sql = << >>
    /\ dialect = NoName
    /\ sqlglot = Installed
    /\ result = NoResult

(* graph = []; queue = [(target_trace_id, target_model)]; visited = set() *)
BuildLineageGraph ==
    /\ pc = "graph"
    /\ graph' = << >>
    /\ queue' = << <<GraphTargetTrace, GraphTargetModel>> >>
    /\ visited' = {}
    /\ pc' = "graph_loop"
    /\ UNCHANGED instr_vars
    /\ UNCHANGED tracer_vars
    /\ UNCHANGED sql_vars
    /\ UNCHANGED project_vars

(* one round of  while queue: ... *)
ExpandRow ==
    /\ pc = "graph_loop"
    /\ queue # << >>
    /\ LET current == pop_first(queue)
           st == expand(upstream_of(current.item[1], current.item[2], mappings),
                        [graph |-> graph, queue |-> current.rest, visited |-> visited])
       IN  /\ graph' = st.graph
           /\ queue' = st.queue
           /\ visited' = st.visited
    /\ UNCHANGED pc
    /\ UNCHANGED instr_vars
    /\ UNCHANGED tracer_vars
    /\ UNCHANGED sql_vars
    /\ UNCHANGED project_vars

(* return graph *)
ReturnGraph ==
    /\ pc = "graph_loop"
    /\ queue = << >>
    /\ pc' = "graph_returned"
    /\ UNCHANGED graph_vars
    /\ UNCHANGED instr_vars
    /\ UNCHANGED tracer_vars
    /\ UNCHANGED sql_vars
    /\ UNCHANGED project_vars

GraphNext ==
    \/ BuildLineageGraph
    \/ ExpandRow
    \/ ReturnGraph

GraphSpec == GraphInit /\ [][GraphNext]_vars

(* the loop is not suspended: a round that can be taken is taken *)
GraphLiveSpec == GraphSpec /\ WF_vars(GraphNext)

(***************************************************************************)
(* Vocabulary of the properties.                                           *)
(***************************************************************************)
ReservedColumns == {TRACE_COLUMN, PARENT_TRACE_COLUMN}

(* the name under which an output entry appears in the result set *)
OutputName(e) ==
    IF e.kind = "Alias" THEN e.alias
    ELSE IF e.kind = "Column" THEN e.this
    ELSE NoName

OutputPositions(node, name) ==
    { i \in 1..Len(node.expressions) : OutputName(node.expressions[i]) = name }

IsAliasNamed(e, name) == e.kind = "Alias" /\ e.alias = name

HasOutputAlias(node, name) ==
    \E i \in 1..Len(node.expressions) : IsAliasNamed(node.expressions[i], name)

Finished == pc = "done"

(* C1: a block whose output list holds neither reserved column comes out of
   the instrumentation with the alias _row_trace_id at index 0 and the alias
   _row_parent_trace_ids at index 1, whatever its shape and nesting. *)
ColumnOrderInvariant ==
    Finished =>
        \A b \in DOMAIN blocks :
            (\A name \in ReservedColumns : OutputPositions(input[b], name) = {})
            => /\ Len(blocks[b].expressions) >= 2
               /\ IsAliasNamed(blocks[b].expressions[1], TRACE_COLUMN)
               /\ IsAliasNamed(blocks[b].expressions[2], PARENT_TRACE_COLUMN)

ColumnOrderWitness ==
    /\ Finished
    /\ stmt = SelectRef(0)
    /\ blocks[0].where.kind = "In"
    /\ input[1].group # << >>
    /\ \A name \in ReservedColumns : OutputPositions(input[1], name) = {}
    /\ Len(blocks[1].expressions) = Len(input[1].expressions) + 2

(* C2: after the instrumentation neither reserved name occurs more than once
   among the output columns of a block, a bare column reference of that name
   counting as the column being there already. *)
NoDuplicateReservedColumn ==
    Finished =>
        \A b \in DOMAIN blocks : \A name \in ReservedColumns :
            Cardinality(OutputPositions(input[b], name)) <= 1
            => Cardinality(OutputPositions(blocks[b], name)) <= 1

(* C3: instrumenting the instrumented tree again changes nothing. *)
Idempotent == (Finished /\ pass = 2) => blocks = first

IdempotentWitness ==
    /\ Finished
    /\ pass = 2
    /\ first # input
    /\ 0 \in DOMAIN blocks
    /\ blocks = first

(* C4: after _inject_lineage every Select block of the tree, wherever it is
   nested, has an output alias _row_trace_id and an output alias
   _row_parent_trace_ids. *)
EveryBlockInstrumented ==
    Finished =>
        \A b \in DOMAIN blocks :
            /\ HasOutputAlias(blocks[b], TRACE_COLUMN)
            /\ HasOutputAlias(blocks[b], PARENT_TRACE_COLUMN)

EveryBlockInstrumentedWitness ==
    /\ Finished
    /\ pass = 1
    /\ Cardinality(DOMAIN blocks) >= 3
    /\ \E b \in DOMAIN blocks : \E j \in 1..Len(input[b].joins) :
          input[b].joins[j].on.kind = "In"
    /\ \A b \in DOMAIN blocks : ~HasOutputAlias(input[b], PARENT_TRACE_COLUMN)

(* the alias of a source, defaulting to the table name *)
SourceAlias(src) ==
    IF src.alias # NoName THEN src.alias
    ELSE IF src.kind = "Table" THEN src.this
    ELSE NoName

Aliased(srcs) == SelectSeq(srcs, LAMBDA x : SourceAlias(x) # NoName)

(* the sources written in the block's own FROM and JOIN clauses *)
DirectSources(node) ==
    (IF node.from.kind = "From" THEN <<node.from.this>> ELSE << >>)
    \o [j \in 1..Len(node.joins) |-> node.joins[j].this]

(* C5: the sources that contribute tokens to a block are exactly the aliased
   Table and Subquery references written directly in its own FROM and JOIN
   clauses; what is nested in a subquery source or in a JOIN condition is not
   a source of the outer block. *)
SourcesAreDirect ==
    \A b \in DOMAIN blocks :
        built[b].called => Aliased(built[b].sources) = Aliased(DirectSources(input[b]))

RECURSIVE ContainsAggregate(_)
ContainsAggregate(e) ==
    CASE e.kind = "Count" -> TRUE
      [] e.kind = "Alias" -> ContainsAggregate(e.this)
      [] e.kind = "Add" -> ContainsAggregate(e.this) \/ ContainsAggregate(e.expression)
      [] OTHER -> FALSE

(* C6: a block is classified aggregating exactly when it has a GROUP BY, or
   DISTINCT, or an output expression that contains an aggregate call, also
   under an alias or inside a larger expression. *)
ClassifiedAggregating ==
    \A b \in DOMAIN blocks :
        built[b].called =>
            (built[b].is_aggregated <=>
                \/ input[b].group # << >>
                \/ input[b].distinct
                \/ \E i \in 1..Len(input[b].expressions) :
                      ContainsAggregate(input[b].expressions[i]))

(* the expression under the injected alias _row_parent_trace_ids *)
TokensExpr(b) ==
    LET i == CHOOSE k \in 1..Len(blocks[b].expressions) :
                 IsAliasNamed(blocks[b].expressions[k], PARENT_TRACE_COLUMN)
    IN  blocks[b].expressions[i].this

(* the operands of a left-to-right array concatenation *)
RECURSIVE ConcatOperands(_)
ConcatOperands(e) ==
    IF e.kind = "ArrayConcat" THEN ConcatOperands(e.this) \o <<e.expression>> ELSE <<e>>

(* c(si): what one source contributes *)
Contribution(src) ==
    IF src.kind = "Table"
    THEN [kind |-> "Array", expressions |->
            << [kind |-> "Concat", expressions |->
                 << [kind |-> "Literal", this |-> SourceAlias(src) \o <<":">>, is_string |-> TRUE],
                    [kind |-> "Cast",
                     this |-> [kind |-> "Property",
                               this |-> Identifier(SourceAlias(src)),
                               this_key |-> "this",
                               expressions |-> <<Identifier(TRACE_COLUMN)>>],
                     to |-> <<"text">>] >>] >>]
    ELSE [kind |-> "Property",
          this |-> Identifier(SourceAlias(src)),
          this_key |-> "this",
          expressions |-> <<Identifier(PARENT_TRACE_COLUMN)>>]

OnlyTableSources(node) ==
    /\ \A i \in 1..Len(DirectSources(node)) : DirectSources(node)[i].kind = "Table"
    /\ \A j \in 1..Len(node.joins) : node.joins[j].on.kind = "EQ"

(* C7: with s1..sn (n >= 1) the sources in enumeration order, the FROM source
   first and then the JOIN sources in clause order, the combined expression is
   the left-to-right array concatenation of coalesce(c(si), empty array). *)
CombinedTokenExpression ==
    \A b \in DOMAIN blocks :
        built[b].called
        => LET S == Aliased(built[b].sources) IN
           /\ Len(S) >= 1 =>
                ConcatOperands(TokensExpr(b).this) =
                    [i \in 1..Len(S) |->
                        [kind |-> "Coalesce", this |-> Contribution(S[i]),
                         expressions |-> <<[kind |-> "Array", expressions |-> << >>]>>]]
           /\ OnlyTableSources(input[b]) => built[b].sources = DirectSources(input[b])

CombinedTokenExpressionWitness ==
    /\ Finished
    /\ pass = 1
    /\ 1 \in DOMAIN blocks
    /\ built[1].called
    /\ Len(input[1].joins) = 2
    /\ input[1].from.this.kind = "Subquery"
    /\ input[1].from.this.alias # NoName
    /\ input[1].joins[1].this # input[1].joins[2].this
    /\ \A j \in 1..2 : input[1].joins[j].this.kind = "Table"
    /\ Len(ConcatOperands(TokensExpr(1).this)) >= 3

(* C8: for a block with at least one source the builder returns the combined
   array wrapped in a dedup operation, ArrayUnique when it classified the
   block row-preserving and ArrayUniqueAgg when it classified it aggregating;
   so the token array of every row the query returns holds each token of the
   contributing source rows once: tokens of one table under two aliases stay
   apart, equal tokens collapse. *)
Executed == db # << >> /\ pc \in {"executed", "mapped"}

RowTokens(k) == target_rows[k]["_row_parent_trace_ids"].v

(* the tokens the table sources of block 1 contribute on row combination r *)
ContributedTokens(r) ==
    { StrV(SourceAlias(src) \o <<":">> \o db[r][SourceAlias(src)].trace) :
        src \in { x \in { DirectSources(input[1])[i] : i \in 1..Len(DirectSources(input[1])) } :
                    x.kind = "Table" } }

DedupInvariant ==
    /\ \A b \in DOMAIN blocks :
        (built[b].called /\ Aliased(built[b].sources) # << >>)
        => /\ TokensExpr(b).kind =
                (IF built[b].is_aggregated THEN "ArrayUniqueAgg" ELSE "ArrayUnique")
           /\ TokensExpr(b).this.kind \in {"Coalesce", "ArrayConcat"}
    /\ Executed =>
        \A k \in 1..Len(target_rows) :
            /\ \A i, j \in 1..Len(RowTokens(k)) : i # j => RowTokens(k)[i] # RowTokens(k)[j]
            /\ { RowTokens(k)[i] : i \in 1..Len(RowTokens(k)) } =
                 (IF built[1].is_aggregated
                    THEN UNION { ContributedTokens(r) : r \in 1..Len(db) }
                    ELSE ContributedTokens(k))

DedupWitness ==
    /\ Executed
    /\ input[1].group # << >>
    /\ Len(db) = 2
    /\ Len(input[1].joins) = 1
    /\ input[1].from.this.this = input[1].joins[1].this.this
    /\ input[1].from.this.alias # input[1].joins[1].this.alias
    /\ Len(target_rows) = 1
    /\ Len(RowTokens(1)) = 3

(* C9: the tokens of a joined row resolve, against the name of an upstream
   table of the block, to exactly the trace ids of that table's rows, also
   when the table is given an alias different from its name. *)
UpstreamTraces(r, m) ==
    { StrV(db[r][SourceAlias(src)].trace) :
        src \in { x \in { DirectSources(input[1])[i] : i \in 1..Len(DirectSources(input[1])) } :
                    x.kind = "Table" /\ x.this = m } }

UpstreamNames ==
    { x.this : x \in { y \in { DirectSources(input[1])[i] : i \in 1..Len(DirectSources(input[1])) } :
                          y.kind = "Table" } }

JoinResolution ==
    (pc = "mapped" /\ db # << >> /\ ~built[1].is_aggregated /\ source_model \in UpstreamNames)
    => \A k \in 1..Len(target_rows) :
          { mappings[i].source_trace_id :
              i \in { n \in 1..Len(mappings) :
                        mappings[n].target_trace_id = target_rows[k]["_row_trace_id"] } }
          = UpstreamTraces(k, source_model)

(* C10: in tokens mode the mappings are exactly, for every target row and
   every token of its list that starts with "m:", the rest of the token after
   that prefix with the trace id of that row; other tokens give nothing. *)
HasPrefix(tok, m) ==
    /\ tok.t = "str"
    /\ Len(tok.v) >= Len(m) + 1
    /\ \A i \in 1..Len(m) : tok.v[i] = m[i]
    /\ tok.v[Len(m) + 1] = ":"

Remainder(tok, m) == [i \in 1..(Len(tok.v) - Len(m) - 1) |-> tok.v[i + Len(m) + 1]]

TokenList(row) ==
    IF "_row_parent_trace_ids" \in DOMAIN row /\ row["_row_parent_trace_ids"].t = "list"
    THEN row["_row_parent_trace_ids"].v ELSE << >>

RowTrace(row) ==
    IF "_row_trace_id" \in DOMAIN row /\ row["_row_trace_id"].t = "str"
    THEN row["_row_trace_id"]
    ELSE new_trace_id(row)

ResolvedPairs(m) ==
    UNION { { <<StrV(Remainder(TokenList(target_rows[k])[i], m)), RowTrace(target_rows[k])>> :
                i \in { n \in 1..Len(TokenList(target_rows[k])) :
                          HasPrefix(TokenList(target_rows[k])[n], m) } }
            : k \in 1..Len(target_rows) }

TokenResolution ==
    pc = "mapped" =>
        /\ { <<mappings[i].source_trace_id, mappings[i].target_trace_id>> :
               i \in 1..Len(mappings) } = ResolvedPairs(source_model)
        /\ \A i \in 1..Len(mappings) :
              /\ mappings[i].source_model = source_model
              /\ mappings[i].target_model = TargetModel

TokenResolutionWitness ==
    /\ pc = "mapped"
    /\ db = << >>
    /\ source_model = <<"a">>
    /\ Len(target_rows) = 1
    /\ TokenList(target_rows[1]) =
          <<StrV(<<"a", ":", "u">>), StrV(<<"a", ":", "v">>), StrV(<<"b", ":", "u">>)>>
    /\ Len(mappings) = 2
    /\ mappings[1].source_trace_id = StrV(<<"u">>)
    /\ mappings[2].source_trace_id = StrV(<<"v">>)

(***************************************************************************)
(* instrument_sql as a whole.                                              *)
(***************************************************************************)
Called == pc \in {"instrumented", "patched"}

RawChunks == { raw_sql[i] : i \in { k \in 1..Len(raw_sql) : k % 2 = 1 } }

ParseFails ==
    \/ dialect \notin KnownDialects
    \/ \E c \in RawChunks : c.kind = "malformed"

NoStatements ==
    /\ ~ParseFails
    /\ sqlglot.blank_statement = "skipped"
    /\ \A c \in RawChunks : c.kind = "blank"

(* C11: when the library is missing, when parsing fails (malformed SQL or an
   unknown dialect) and when the parser yields no statement, instrument_sql
   raises nothing and returns the text it was given. *)
PassthroughOnParseFailure ==
    (Called /\ (~sqlglot.installed \/ ParseFails \/ NoStatements))
    => /\ ~result.raised
       /\ result.value = raw_sql

PassthroughOnParseFailureWitness ==
    /\ pc = "instrumented"
    /\ sqlglot.installed
    /\ dialect = "postgres"
    /\ Len(raw_sql) = 3
    /\ raw_sql[1] = Statement(SelectIdFromT1, "written")
    /\ raw_sql[3] = Malformed
    /\ result = Returned(raw_sql)

(* C12: for every text the parser accepts, a text with a blank chunk (an
   empty text, an extra semicolon) included, instrument_sql raises nothing. *)
NeverRaises ==
    (Called /\ sqlglot.installed /\ ~ParseFails) => ~result.raised

(* C13: a block without FROM and JOIN source gets the empty array as its
   parent-tokens expression, and the rows it returns resolve, against any
   upstream model, to no mapping. *)
NoSourceBlock ==
    /\ \A b \in DOMAIN blocks :
        (built[b].called /\ input[b].from = None /\ input[b].joins = << >>)
        => TokensExpr(b) = [kind |-> "Array", expressions |-> << >>]
    /\ (pc = "mapped" /\ db # << >> /\ input[1].from = None) => mappings = << >>

NoSourceBlockWitness ==
    /\ pc = "mapped"
    /\ db # << >>
    /\ input[1].from = None
    /\ Len(target_rows) = 2
    /\ TokensExpr(1) = [kind |-> "Array", expressions |-> << >>]
    /\ mappings = << >>

(* the number of tokens of the rows that start with "m:" *)
MatchingTokens(row, m) ==
    { n \in 1..Len(TokenList(row)) : HasPrefix(TokenList(row)[n], m) }

RECURSIVE TotalMatches(_, _)
TotalMatches(rows, m) ==
    IF rows = << >> THEN 0
    ELSE Cardinality(MatchingTokens(Head(rows), m)) + TotalMatches(Tail(rows), m)

(* C14: in tokens mode a target row whose parent-token column is null,
   absent or empty gives no mapping, and when no row has a matching token the
   result is the empty list, whatever the source rows are: nothing is paired
   by position or by value. *)
NoTokensNoMappings ==
    pc = "mapped" =>
        /\ Len(mappings) = TotalMatches(target_rows, source_model)
        /\ (\A k \in 1..Len(target_rows) : TokenList(target_rows[k]) = << >>)
            => mappings = << >>
        /\ (\A k \in 1..Len(target_rows) : MatchingTokens(target_rows[k], source_model) = {})
            => mappings = << >>

NoTokensNoMappingsWitness ==
    /\ pc = "mapped"
    /\ db = << >>
    /\ source_rows # << >>
    /\ Len(target_rows) = 2
    /\ target_rows[1] = [id |-> IntV(1)]
    /\ "_row_parent_trace_ids" \in DOMAIN target_rows[2]
    /\ target_rows[2]["_row_parent_trace_ids"] = NoneV
    /\ mappings = << >>

MappingFields ==
    {"source_model", "target_model", "source_trace_id", "target_trace_id",
     "compiled_sql", "executed_at"}

(* C15: no two records of one call have the same (source_trace_id,
   target_trace_id) pair, also when the token list of a target row repeats a
   token, and every record has the six fields. *)
OneRecordPerPair ==
    (/\ pc = "mapped"
     /\ Len(target_rows) = 1
     /\ truthy(get(target_rows[1], "_row_trace_id"))
     /\ \A i \in 1..Len(mappings) : mappings[i].source_trace_id.v # << >>)
    => /\ \A i, j \in 1..Len(mappings) :
            i # j => <<mappings[i].source_trace_id, mappings[i].target_trace_id>>
                     # <<mappings[j].source_trace_id, mappings[j].target_trace_id>>
       /\ \A i \in 1..Len(mappings) : DOMAIN mappings[i] = MappingFields

(* C16: n statements come out as n statements in the same order, joined by
   a semicolon and a newline, and statement i of the output is what
   instrument_sql emits for statement i alone. *)
StatementOrder ==
    (Called /\ sqlglot.installed /\ ~ParseFails /\ \A c \in RawChunks : c.kind = "statement")
    => /\ ~result.raised
       /\ Len(result.value) = Len(raw_sql)
       /\ \A i \in 1..Len(raw_sql) :
            IF i % 2 = 1
            THEN /\ result.value[i].kind = "statement"
                 /\ result.value[i].tree.stmt = raw_sql[i].tree.stmt
                 /\ <<result.value[i]>> = instrument_sql(<<raw_sql[i]>>, dialect, sqlglot).value
            ELSE result.value[i] = [kind |-> "separator", text |-> ";\n"]

StatementOrderWitness ==
    /\ pc = "instrumented"
    /\ sqlglot.installed
    /\ dialect = "duckdb"
    /\ Len(raw_sql) = 3
    /\ raw_sql[1].kind = "statement" /\ raw_sql[1].tree = SelectLiteral
    /\ raw_sql[2].text = ";"
    /\ raw_sql[3].kind = "statement" /\ raw_sql[3].tree = SelectFromSubquery
    /\ ~result.raised
    /\ Len(result.value) = 3
    /\ result.value[1].tree.blocks # raw_sql[1].tree.blocks
    /\ result.value[3].tree.blocks # raw_sql[3].tree.blocks

(* C17: a statement without any Select block comes out of _inject_lineage as
   it went in, and no step changes anything but the output list of a Select
   block. *)
NonSelectUnchanged ==
    /\ []((pc \in {"loop", "done"} /\ find_all(stmt, {"Select"}, input) = << >>)
            => (blocks = input /\ select_nodes = << >>))
    /\ [][/\ stmt' = stmt
          /\ DOMAIN blocks' = DOMAIN blocks
          /\ \A b \in DOMAIN blocks :
                [blocks'[b] EXCEPT !.expressions = << >>]
                = [blocks[b] EXCEPT !.expressions = << >>]]_vars

NonSelectUnchangedWitness ==
    /\ Finished
    /\ stmt.kind = "Insert"
    /\ stmt.expression = None
    /\ stmt.this = Table(T1, NoName)
    /\ blocks = << >>

(* C18: an injected parent-tokens column stands right after the trace column,
   wherever the trace column is: injected at index 0, or found at index 0 or
   at a later index. *)
ParentAfterTrace ==
    (Finished /\ pass = 1)
    => \A b \in DOMAIN blocks :
          built[b].called
          => \E i \in 1..(Len(blocks[b].expressions) - 1) :
                /\ IsAliasNamed(blocks[b].expressions[i], TRACE_COLUMN)
                /\ IsAliasNamed(blocks[b].expressions[i + 1], PARENT_TRACE_COLUMN)

(* every order in which the blocks can be processed *)
Orders(ids) ==
    { o \in [1..Cardinality(ids) -> ids] : \A i, j \in 1..Cardinality(ids) : i # j => o[i] # o[j] }

(* C19: processing the Select blocks of a statement in any order gives the
   tree that _inject_lineage gives. *)
OrderIndependent ==
    (Finished /\ pass = 1)
    => \A o \in Orders(DOMAIN input) : process_select_nodes(o, input) = blocks

OrderIndependentWitness ==
    /\ Finished
    /\ pass = 1
    /\ Cardinality(DOMAIN blocks) = 4
    /\ input[1].from.this.kind = "Subquery"
    /\ built[1].called
    /\ \A b \in DOMAIN blocks : blocks[b] # input[b]

(* C20: patch_compiled_sql gives back the text it was given when the select
   list already has the column _row_trace_id, the text written as the
   generator prints it. *)
PatchSkipsWhenPresent ==
    (/\ pc = "patched"
     /\ Len(raw_sql) = 1
     /\ raw_sql[1].kind = "statement"
     /\ raw_sql[1].fmt = "postgres"
     /\ DOMAIN raw_sql[1].tree.blocks = {1}
     /\ HasOutputAlias(raw_sql[1].tree.blocks[1], TRACE_COLUMN))
    => /\ ~result.raised
       /\ result.value = raw_sql

(* C21: for a simple SELECT without the trace column, DISTINCT or not,
   patch_compiled_sql gives a select list that starts with the trace
   expression aliased _row_trace_id, directly followed by the original first
   output column; DISTINCT stays on the block. *)
PatchInjectsTraceFirst ==
    (/\ pc = "patched"
     /\ sqlglot.installed
     /\ Len(raw_sql) = 1
     /\ raw_sql[1].kind = "statement"
     /\ raw_sql[1].tree \in {SelectIdFromT1, SelectDistinctId})
    => /\ ~result.raised
       /\ Len(result.value) = 1
       /\ LET before == raw_sql[1].tree.blocks[1]
              after == result.value[1].tree.blocks[1]
          IN  /\ after.expressions[1] = Alias(TRACE_EXPRESSION, TRACE_COLUMN)
              /\ after.expressions[2] = before.expressions[1]
              /\ after.distinct = before.distinct

(***************************************************************************)
(* Heuristic mode.                                                         *)
(***************************************************************************)
CommonColumns(s, t) == (DOMAIN s \cap DOMAIN t) \ {"_row_trace_id"}

Shares(s, t) ==
    /\ CommonColumns(s, t) # {}
    /\ \A c \in CommonColumns(s, t) : s[c] = t[c]

(* <<i, j>>: target row i and source row j match *)
MatchingPairs ==
    { p \in (1..Len(target_rows)) \X (1..Len(source_rows)) :
        Shares(source_rows[p[2]], target_rows[p[1]]) }

(* the position of a matching pair, target rows first, then source rows *)
Rank(p) ==
    Cardinality({ q \in MatchingPairs : q[1] < p[1] \/ (q[1] = p[1] /\ q[2] <= p[2]) })

(* the row's own trace id if it has one, else the deterministic id of the row *)
RowTraceId(row) ==
    IF "_row_trace_id" \in DOMAIN row /\ row["_row_trace_id"] # NoneV
    THEN row["_row_trace_id"]
    ELSE deterministic_uuid([k \in DOMAIN row \ {"_row_trace_id"} |-> row[k]])

(* C22: in heuristic mode, when at least one pair matches, there is one
   mapping per (source row, target row) pair with a common column other than
   _row_trace_id and equal values on every common column, and no other; all
   mappings of a target row carry that row's trace id or its deterministic id. *)
MatchedPairsMapped ==
    (pc = "matched" /\ MatchingPairs # {})
    => /\ Len(mappings) = Cardinality(MatchingPairs)
       /\ \A p \in MatchingPairs :
            /\ mappings[Rank(p)].source_trace_id = RowTraceId(source_rows[p[2]])
            /\ mappings[Rank(p)].target_trace_id = RowTraceId(target_rows[p[1]])

MatchedPairsMappedWitness ==
    /\ pc = "matched"
    /\ Len(source_rows) = 2
    /\ get(source_rows[1], "_row_trace_id") = StrV(<<"u">>)
    /\ get(source_rows[2], "_row_trace_id") = StrV(<<"v">>)
    /\ target_rows = <<[region |-> IntV(1), total |-> IntV(3)]>>
    /\ Len(mappings) = 2
    /\ mappings[1].source_trace_id = StrV(<<"u">>)
    /\ mappings[2].source_trace_id = StrV(<<"v">>)
    /\ mappings[1].target_trace_id = mappings[2].target_trace_id
    /\ mappings[1].target_trace_id.v = <<"uuid5">>

(* C23: in heuristic mode, when no pair matches, the i-th source row is
   paired with the i-th target row: min(number of source rows, number of
   target rows) mappings, each with the given source and target model. *)
PositionalFallback ==
    (pc = "matched" /\ MatchingPairs = {})
    => /\ Len(mappings) = IF Len(source_rows) < Len(target_rows)
                          THEN Len(source_rows) ELSE Len(target_rows)
       /\ \A i \in 1..Len(mappings) :
            /\ mappings[i].source_trace_id = RowTraceId(source_rows[i])
            /\ mappings[i].target_trace_id = RowTraceId(target_rows[i])
            /\ mappings[i].source_model = source_model
            /\ mappings[i].target_model = TargetModel

PositionalFallbackWitness ==
    /\ pc = "matched"
    /\ source_model = <<"b">>
    /\ Len(source_rows) = 2
    /\ Len(target_rows) = 2
    /\ MatchingPairs = {}
    /\ "x" \in DOMAIN source_rows[1]
    /\ "y" \in DOMAIN target_rows[2]
    /\ Len(mappings) = 2
    /\ mappings[1].source_trace_id = StrV(<<"w">>)
    /\ mappings[2].target_trace_id.v = <<"uuid5">>

(***************************************************************************)
(* generate_lineage_for_project.                                           *)
(***************************************************************************)
NodeOf(uid) == CHOOSE n \in { manifest[i] : i \in 1..Len(manifest) } : n.unique_id = uid

Uids == { manifest[i].unique_id : i \in 1..Len(manifest) }

IsQueryable(uid) ==
    uid \in Uids /\ NodeOf(uid).resource_type \in {"model", "seed", "snapshot"}

(* <<u, d>>: d depends on u, and both are models, seeds or snapshots *)
QueryableEdges ==
    { e \in Uids \X Uids :
        /\ IsQueryable(e[1])
        /\ IsQueryable(e[2])
        /\ \E k \in 1..Len(NodeOf(e[2]).depends_on) : NodeOf(e[2]).depends_on[k] = e[1] }

RECURSIVE Concatenation(_)
Concatenation(batches) ==
    IF batches = << >> THEN << >> ELSE Head(batches) \o Concatenation(Tail(batches))

(* C24: capture_lineage is called exactly once per dependency edge whose two
   nodes are models, seeds or snapshots and for no other edge; the returned
   list is the concatenation, in order, of the batches handed to the writer;
   an edge without mappings causes no write. *)
OneCallPerQueryableEdge ==
    pc = "returned"
    => /\ Len(calls) = Cardinality(QueryableEdges)
       /\ \A e \in QueryableEdges :
            Cardinality({ i \in 1..Len(calls) :
                            /\ calls[i].source_model = NodeOf(e[1]).name
                            /\ calls[i].target_model = NodeOf(e[2]).name }) = 1
       /\ all_mappings = Concatenation(written)
       /\ Len(written) = Cardinality({ i \in 1..Len(calls) : calls[i].returned # << >> })
       /\ \A i \in 1..Len(written) : written[i] # << >>

OneCallPerQueryableEdgeWitness ==
    /\ pc = "returned"
    /\ manifest[1].resource_type = "seed"
    /\ manifest[2].resource_type = "model"
    /\ manifest[3].resource_type = "test"
    /\ manifest[2].depends_on = <<"source.x", "n1">>
    /\ manifest[3].depends_on = <<"n1", "n2">>
    /\ Len(calls) = 1
    /\ calls[1].source_model = <<"n1">>
    /\ calls[1].target_model = <<"n2">>
    /\ Len(written) = 1
    /\ Len(all_mappings) = 2

(* C30: after generate_lineage_for_project has returned, the export file
   holds every record of the returned list, for jsonl and for parquet and for
   any number of edges with mappings. *)
SinkHoldsReturned ==
    pc = "returned"
    => \A i \in 1..Len(all_mappings) :
          \E k \in 1..Len(sink) : sink[k] = all_mappings[i]

(***************************************************************************)
(* Resolution against two upstream models.                                 *)
(***************************************************************************)
ColonFreeNames ==
    { m \in ModelNames \cup { <<"a", "b">> } : \A i \in 1..Len(m) : m[i] # ":" }

(* the row with only the n-th token of its list *)
OneToken(row, n) ==
    [row EXCEPT !["_row_parent_trace_ids"] = ListV(<<TokenList(row)[n]>>)]

RECURSIVE TotalTokens(_)
TotalTokens(rows) ==
    IF rows = << >> THEN 0 ELSE Len(TokenList(Head(rows))) + TotalTokens(Tail(rows))

Resolve(rows, m) == build_mappings(source_rows, rows, m, TargetModel, CompiledSql, ExecutedAt)

(* C25: for two distinct upstream model names without a colon, no token
   gives a mapping under both names, so the mappings under the two names
   together are at most one per token. *)
DisjointResolution ==
    (pc = "mapped" /\ source_model \in ColonFreeNames)
    => \A other \in ColonFreeNames \ {source_model} :
          /\ \A k \in 1..Len(target_rows) :
                \A n \in 1..Len(TokenList(target_rows[k])) :
                    \/ Resolve(<<OneToken(target_rows[k], n)>>, source_model) = << >>
                    \/ Resolve(<<OneToken(target_rows[k], n)>>, other) = << >>
          /\ Len(mappings) + Len(Resolve(target_rows, other)) <= TotalTokens(target_rows)

DisjointResolutionWitness ==
    /\ pc = "mapped"
    /\ source_model = <<"a">>
    /\ Len(target_rows) = 1
    /\ TokenList(target_rows[1])
         = <<StrV(<<"a", ":", "u">>), StrV(<<"a", "b", ":", "u">>), StrV(<<"b", ":", "u">>)>>
    /\ Len(mappings) = 1
    /\ Len(Resolve(target_rows, <<"a", "b">>)) = 1
    /\ Len(Resolve(target_rows, <<"b">>)) = 1

(***************************************************************************)
(* Frame of the instrumentation of a block.                                *)
(***************************************************************************)
Frame(node) == [node EXCEPT !.expressions = << >>]

(* the list without the entries at the positions J *)
Without(es, J) ==
    LET keep(i) == i \notin J
        RECURSIVE pick(_)
        pick(i) == IF i > Len(es) THEN << >>
                   ELSE (IF keep(i) THEN <<es[i]>> ELSE << >>) \o pick(i + 1)
    IN  pick(1)

MissingReserved(node) == { name \in ReservedColumns : ~HasOutputAlias(node, name) }

(* C26 as stated: the output list of an instrumented block is the injected
   columns followed by the original output list, and the rest of the block
   is unchanged. *)
OriginalsAfterInjected ==
    (Finished /\ pass = 1)
    => \A b \in DOMAIN blocks :
          /\ Frame(blocks[b]) = Frame(input[b])
          /\ LET n == Cardinality(MissingReserved(input[b])) IN
                /\ Len(blocks[b].expressions) = Len(input[b].expressions) + n
                /\ Without(blocks[b].expressions, 1..n) = input[b].expressions
                /\ \A j \in 1..n :
                      \E name \in MissingReserved(input[b]) :
                          IsAliasNamed(blocks[b].expressions[j], name)

(* C26, amended: instrumenting a block only inserts the missing reserved
   columns, at index 0 (trace) and index 1 (parent tokens); every original
   entry is kept, unmodified and in its relative order, and the rest of the
   block is unchanged.  The originals all follow the injected columns when
   the block had neither reserved alias. *)
OriginalsKeptInOrder ==
    (Finished /\ pass = 1)
    => \A b \in DOMAIN blocks :
          /\ Frame(blocks[b]) = Frame(input[b])
          /\ \E J \in SUBSET {1, 2} :
                /\ Cardinality(J) = Cardinality(MissingReserved(input[b]))
                /\ Len(blocks[b].expressions) = Len(input[b].expressions) + Cardinality(J)
                /\ Without(blocks[b].expressions, J) = input[b].expressions
                /\ \A j \in J :
                      \E name \in MissingReserved(input[b]) :
                          IsAliasNamed(blocks[b].expressions[j], name)
                /\ MissingReserved(input[b]) = ReservedColumns => J = {1, 2}

OriginalsKeptInOrderWitness ==
    /\ Finished
    /\ pass = 1
    /\ stmt = SelectRef(1)
    /\ Len(input[1].expressions) = 2
    /\ IsAliasNamed(input[1].expressions[1], TRACE_COLUMN)
    /\ input[1].expressions[2] = Column(<<"id">>)
    /\ input[1].from # None
    /\ input[1].group # << >>
    /\ Len(blocks[1].expressions) = 3
    /\ blocks[1].expressions[1] = input[1].expressions[1]
    /\ IsAliasNamed(blocks[1].expressions[2], PARENT_TRACE_COLUMN)
    /\ blocks[1].expressions[3] = input[1].expressions[2]

(***************************************************************************)
(* build_lineage_graph.                                                    *)
(***************************************************************************)
GraphTarget == <<GraphTargetModel, GraphTargetTrace>>

MappingSet == { mappings[i] : i \in 1..Len(mappings) }

SourceRow(m) == <<m.source_model, m.source_trace_id>>
TargetRow(m) == <<m.target_model, m.target_trace_id>>

(* the rows within k mappings of the target row *)
RECURSIVE Within(_)
Within(k) ==
    IF k = 0 THEN {GraphTarget}
    ELSE LET nearer == Within(k - 1)
         IN  nearer \cup { SourceRow(m) : m \in { x \in MappingSet : TargetRow(x) \in nearer } }

Reached == Within(Len(mappings))

(* the mappings that lie on an upstream path from the target row *)
OnPath == { m \in MappingSet : TargetRow(m) \in Reached }

Depth(row) == CHOOSE k \in 0..Len(mappings) : row \in Within(k) /\ (k = 0 \/ row \notin Within(k - 1))

(* when a row was found: the target row first, then the sources of the hops *)
Found(row) ==
    IF row = GraphTarget THEN 0
    ELSE CHOOSE i \in 1..Len(graph) : SourceRow(graph[i]) = row

HopMapping(h) ==
    MappingOf(h.source_model, h.source_trace_id, h.target_model, h.target_trace_id)

(* C27: the hops returned from a target row have as sources exactly the
   upstream rows reachable from it through the mappings, each hop is one of
   the mappings, and the hops come in breadth-first order: a hop into a row
   nearer to the target row comes before a hop into a row further upstream,
   and the rows are expanded in the order in which they were found. *)
TraversesUpstream ==
    pc = "graph_returned"
    => /\ { SourceRow(graph[i]) : i \in 1..Len(graph) } = { SourceRow(m) : m \in OnPath }
       /\ \A i \in 1..Len(graph) : HopMapping(graph[i]) \in OnPath
       /\ \A i, j \in 1..Len(graph) :
            i < j => /\ Depth(TargetRow(graph[i])) <= Depth(TargetRow(graph[j]))
                     /\ Found(TargetRow(graph[i])) <= Found(TargetRow(graph[j]))

TraversesUpstreamWitness ==
    /\ pc = "graph_returned"
    /\ Len(mappings) = 3
    /\ SourceRow(mappings[1]) = <<<<"src">>, <<"x1">>>>
    /\ Len(graph) = 3
    /\ TargetRow(graph[1]) = GraphTarget
    /\ TargetRow(graph[2]) = GraphTarget
    /\ SourceRow(graph[3]) = <<<<"src">>, <<"x1">>>>
    /\ graph[3].row = NoneV

(* C28: build_lineage_graph returns for every list of mappings, cycles
   included, and no row is the source of two hops. *)
GraphTerminates ==
    /\ [](\A i, j \in 1..Len(graph) : i # j => SourceRow(graph[i]) # SourceRow(graph[j]))
    /\ <>(pc = "graph_returned")

GraphTerminatesWitness ==
    /\ pc = "graph_returned"
    /\ Len(graph) = 3
    /\ TargetRow(graph[1]) = GraphTarget
    /\ SourceRow(graph[3]) = GraphTarget
    /\ visited = { SourceRow(graph[i]) : i \in 1..Len(graph) }

(* C29: every mapping on an upstream path from the target row is among the
   returned hops, also when two reached rows derive from the same source row. *)
EveryPathMappingReturned ==
    pc = "graph_returned"
    => \A m \in OnPath : \E i \in 1..Len(graph) : HopMapping(graph[i]) = m

====
